---- MODULE Spec2Model ----
(***************************************************************************)
(* PUT / GET / DELETE data path of the S3 API server (api/s3_put.rs,       *)
(* api/api_server.rs) over the object, version and block-ref tables and    *)
(* the block manager.  One (bucket, key) is modelled; every request is a   *)
(* cooperative task that suspends at each await of the source.             *)
(***************************************************************************)
EXTENDS Integers, Sequences, FiniteSets, TLC

(* ------------------------------ bounds --------------------------------- *)

\* request tasks (one PUT or DELETE each), all of which may run concurrently
NumProcs == 2
\* last value of the millisecond clock
MaxTime == 2
\* longest body of the concurrent specification
MaxBody == 4
\* longest body of the single-PUT and chunker specifications
MaxBodyPut == 10
\* longest transport frame of the single-PUT and chunker specifications
MaxFrame == 5
\* largest configured block_size of the concurrent specification
MaxBlockSize == 3
\* largest configured block_size of the single-PUT and chunker specifications
MaxBlockSizePut == 4
\* bodies are periodic byte patterns 1,2,..,p,1,2,.. with p up to MaxPeriod
MaxPeriod == 1
\* period of the all-distinct bodies of the single-PUT specification
MaxPeriodPut == 10
\* calls of BodyChunker::next the chunker specification makes
MaxCalls == 13
\* last timestamp of the LWW registers of the Bucket entries
MaxBucketTime == 1

(* ------------------------- program constants --------------------------- *)

\* garage_core::block::INLINE_THRESHOLD (scaled down from 3072)
INLINE_THRESHOLD == 2

Procs == 1..NumProcs
\* uuids gen_uuid may draw, one per request (0 is the all-zero sentinel)
Uuids == 1..NumProcs
ZeroUuid == 0
\* garage.config.block_size; the configuration keeps INLINE_THRESHOLD < block_size
BlockSizes == (INLINE_THRESHOLD + 1)..MaxBlockSize
BlockSizesPut == (INLINE_THRESHOLD + 1)..MaxBlockSizePut

Min(a, b) == IF a < b THEN a ELSE b
Max(a, b) == IF a > b THEN a ELSE b

\* body of n bytes with period p
PatternBody(n, p) == [i \in 1..n |-> ((i - 1) % p) + 1]
Bodies == {PatternBody(n, p) : n \in 0..MaxBody, p \in 1..MaxPeriod}
\* bodies of the concurrent replicated PUTs: inline, or streamed
BodiesConverge == {PatternBody(n, 1) : n \in {INLINE_THRESHOLD - 1, MaxBody}}
BodiesPut == {PatternBody(n, p) : n \in 0..MaxBodyPut, p \in {1, 2, MaxPeriodPut}}

(* ------------------------------ data ----------------------------------- *)

\* Option<Vec<u8>>
None == [some |-> FALSE, block |-> <<>>]
Some(b) == [some |-> TRUE, block |-> b]

\* hash(): a digest of the block bytes, collision free (positional encoding
\* of the non-zero bytes in a base larger than any byte)
HashBase == Max(MaxPeriod, MaxPeriodPut) + 1
RECURSIVE hash(_)
hash(b) == IF b = <<>> THEN 0 ELSE b[Len(b)] + HashBase * hash(SubSeq(b, 1, Len(b) - 1))

\* ObjectVersionData
DeleteMarker == [tag |-> "DeleteMarker", bytes |-> <<>>, hash |-> 0]
Inline(b) == [tag |-> "Inline", bytes |-> b, hash |-> 0]
FirstBlock(h) == [tag |-> "FirstBlock", bytes |-> <<>>, hash |-> h]

ObjectVersion(u, t, m, s, c, d) ==
  [uuid |-> u, timestamp |-> t, mime_type |-> m, size |-> s, is_complete |-> c, data |-> d]

\* Option<Object>: None, or the versions of the object
NoObject == [some |-> FALSE, versions |-> <<>>]
\* Object::new
ObjectNew(vs) == [some |-> TRUE, versions |-> vs]

\* order of the versions of an Object: timestamp, ties broken by uuid
VersionLess(a, b) ==
  \/ a.timestamp < b.timestamp
  \/ a.timestamp = b.timestamp /\ a.uuid < b.uuid

\* position at which v is inserted in the sorted sequence vs
InsertPos(vs, v) == 1 + Cardinality({i \in 1..Len(vs) : VersionLess(vs[i], v)})

InsertAt(s, i, x) == SubSeq(s, 1, i - 1) \o <<x>> \o SubSeq(s, i, Len(s))

\* merge of one version into the sorted versions of an object: the same uuid
\* keeps is_complete once true and the larger size, a new uuid is inserted in order
MergeVersion(vs, v) ==
  IF \E i \in 1..Len(vs) : vs[i].uuid = v.uuid
  THEN [i \in 1..Len(vs) |->
          IF vs[i].uuid = v.uuid
          THEN [vs[i] EXCEPT !.size = Max(vs[i].size, v.size),
                             !.is_complete = vs[i].is_complete \/ v.is_complete]
          ELSE vs[i]]
  ELSE InsertAt(vs, InsertPos(vs, v), v)

RECURSIVE MergeVersions(_, _)
MergeVersions(vs, others) ==
  IF others = <<>> THEN vs
  ELSE MergeVersions(MergeVersion(vs, others[1]), SubSeq(others, 2, Len(others)))

\* Object merge, applied by the object table on insert
ObjectMerge(cur, other) == ObjectNew(MergeVersions(cur.versions, other.versions))

\* Version record: Option<Version>
NoVersion == [some |-> FALSE, deleted |-> FALSE, blocks |-> <<>>]
\* Version::new(uuid, bucket, key, deleted, blocks)
VersionNew(deleted, blocks) == [some |-> TRUE, deleted |-> deleted, blocks |-> blocks]
VersionBlock(offset, h) == [offset |-> offset, hash |-> h]

\* Version::add_block: append with strictly increasing offset, else Err
add_block(version, vb) ==
  IF version.blocks # <<>> /\ version.blocks[Len(version.blocks)].offset >= vb.offset
  THEN [ok |-> FALSE, version |-> version]
  ELSE [ok |-> TRUE, version |-> [version EXCEPT !.blocks = Append(@, vb)]]

BlockInsertPos(bs, vb) == 1 + Cardinality({i \in 1..Len(bs) : bs[i].offset < vb.offset})

MergeBlock(bs, vb) ==
  IF \E i \in 1..Len(bs) : bs[i].offset = vb.offset THEN bs
  ELSE InsertAt(bs, BlockInsertPos(bs, vb), vb)

RECURSIVE MergeBlocks(_, _)
MergeBlocks(bs, others) ==
  IF others = <<>> THEN bs
  ELSE MergeBlocks(MergeBlock(bs, others[1]), SubSeq(others, 2, Len(others)))

\* Version merge, applied by the version table on insert: deleted is monotone
\* and clears the blocks, otherwise the blocks are united in offset order
VersionMerge(cur, other) ==
  IF other.deleted THEN VersionNew(TRUE, <<>>)
  ELSE IF cur.deleted THEN cur
  ELSE VersionNew(FALSE, MergeBlocks(cur.blocks, other.blocks))

BlockRef(h, u, d) == [block |-> h, version |-> u, deleted |-> d]

\* BlockRef merge on the key (block, version): deleted is monotone
BlockRefMerge(refs, r) ==
  IF \E x \in refs : x.block = r.block /\ x.version = r.version
  THEN {IF x.block = r.block /\ x.version = r.version
        THEN [x EXCEPT !.deleted = x.deleted \/ r.deleted] ELSE x : x \in refs}
  ELSE refs \cup {r}

(* ------------------------------ state ---------------------------------- *)

VARIABLES
  block_size,       \* garage.config.block_size
  now,              \* wall clock read by now_msec()
  uuids,            \* uuids gen_uuid has returned
  object_table,     \* the Object stored at (bucket, key), or NoObject
  version_table,    \* uuid -> Version record, or NoVersion
  block_ref_table,  \* set of BlockRef records
  block_store,      \* hash -> bytes of the blocks the block manager holds
  req,              \* per request task: its locals and its position
  get_resp,         \* response of the last GET
  sent,             \* entries the object and version tables have been given to replicate
  delivered,        \* entries of sent a second node has received and merged
  node_object_table,   \* the Object as merged at the second node
  node_version_table,  \* uuid -> Version record as merged at the second node
  head_resp,        \* response of the last HEAD
  get_stream,       \* body stream of the GET response being consumed
  bucket_in,        \* Bucket entries given to the bucket table
  bucket_out        \* what their merges have given

\* the second node
replica == <<delivered, node_object_table, node_version_table>>
\* what no PUT or DELETE touches
others == <<replica, head_resp, get_stream, bucket_in, bucket_out>>

vars == <<block_size, now, uuids, object_table, version_table, block_ref_table,
          block_store, req, get_resp, sent, others>>

tables == <<object_table, version_table, block_ref_table, block_store>>

NoFuture == [st |-> "none", hash |-> 0, block |-> <<>>]
NoMeta == [st |-> "none", offset |-> 0, hash |-> 0, version_ins |-> "none", block_ref_ins |-> "none"]
NoCount == [object |-> 0, version |-> 0, block_ref |-> 0, put_block |-> 0]
NoResult == [tag |-> "none", uuid |-> 0, err |-> ""]
Ok(u) == [tag |-> "Ok", uuid |-> u, err |-> ""]
Err(e) == [tag |-> "Err", uuid |-> 0, err |-> e]
\* the request task has panicked
Panic == [tag |-> "Panic", uuid |-> 0, err |-> ""]

\* Response<BodyType> of handle_get, or the error it returns
NoResponse == [status |-> "none", body |-> <<>>, aborted |-> FALSE, content_type |-> "",
               content_length |-> 0, last_modified |-> 0]

IdleReq ==
  [pc |-> "idle", op |-> "none", uuid |-> 0, ts |-> 0, mime_type |-> "",
   body |-> <<>>,            \* the whole request body (history)
   rest |-> <<>>,            \* bytes the transport has not delivered yet
   buf |-> <<>>, read_all |-> FALSE,      \* BodyChunker fields
   chunk |-> "none",         \* state of the current chunker.next() call
   next_block |-> None,      \* value the last chunker.next() returned
   emitted |-> <<>>,         \* blocks next() has returned so far (history)
   polled_after_end |-> FALSE, \* body polled after it had ended (history)
   calls |-> 0,              \* calls of next() made so far (history)
   first_block |-> <<>>, next_offset |-> 0,
   put_curr_block |-> NoFuture, put_curr_version_block |-> NoMeta,
   count |-> NoCount,        \* table inserts and put_block RPCs issued (history)
   seen |-> NoObject,        \* object table as read when the request started (history)
   before |-> {},            \* requests that had returned when this one started (history)
   result |-> NoResult]

Active(p) == req[p].pc \notin {"idle", "done"}

\* a request may start in slot p: slots are taken in order
CanStart(p) ==
  /\ req[p].pc = "idle"
  /\ \A q \in Procs : q < p => req[q].pc # "idle"

Returned == {p \in Procs : req[p].pc = "done"}

SetReq(p, r) == req' = [req EXCEPT ![p] = r]

\* the handler returns res: its locals (chunker, futures) are dropped, what is
\* kept is what the request was and what it did
Return(r, res) ==
  [IdleReq EXCEPT !.pc = "done", !.op = r.op, !.uuid = r.uuid, !.ts = r.ts,
                  !.mime_type = r.mime_type, !.body = r.body, !.count = r.count, !.seen = r.seen,
                  !.before = r.before, !.result = res,
                  !.emitted = IF res.tag = "Ok" THEN r.emitted ELSE <<>>]

(* ---------------------------- BodyChunker ------------------------------ *)

\* mutant: the loop stops as soon as the buffer holds a byte
ChunkerMustReadEmpty(r) == ~r.read_all /\ Len(r.buf) = 0

\* condition of the while loop of BodyChunker::next
ChunkerMustRead(r) == ~r.read_all /\ Len(r.buf) < block_size

\* mutant: the buffer is never split, a long buffer is returned whole
ChunkerTakeNoSplit(buf) ==
  IF Len(buf) = 0 THEN [ret |-> None, buf |-> buf]
  ELSE [ret |-> Some(buf), buf |-> <<>>]

\* mutant: an empty buffer is returned as an empty block instead of None
ChunkerTakeNoNone(buf) ==
  IF Len(buf) <= block_size THEN [ret |-> Some(buf), buf |-> <<>>]
  ELSE [ret |-> Some(SubSeq(buf, 1, block_size)),
        buf |-> SubSeq(buf, block_size + 1, Len(buf))]

\* mutant: drain(..) in both branches, what follows the block is lost
ChunkerTakeDropRest(buf) ==
  IF Len(buf) = 0 THEN [ret |-> None, buf |-> buf]
  ELSE IF Len(buf) <= block_size THEN [ret |-> Some(buf), buf |-> <<>>]
  ELSE [ret |-> Some(SubSeq(buf, 1, block_size)), buf |-> <<>>]

\* value next() returns once the loop has ended, and the buffer it leaves
ChunkerTake(buf) ==
  IF Len(buf) = 0 THEN [ret |-> None, buf |-> buf]
  ELSE IF Len(buf) <= block_size THEN [ret |-> Some(buf), buf |-> <<>>]
  ELSE [ret |-> Some(SubSeq(buf, 1, block_size)),
        buf |-> SubSeq(buf, block_size + 1, Len(buf))]

\* self.body.next() yields a frame of k bytes (k = 0: an empty frame)
BodyFrame(p, k) ==
  /\ req[p].chunk = "reading"
  /\ ChunkerMustRead(req[p])
  /\ k <= Len(req[p].rest)
  /\ SetReq(p, [req[p] EXCEPT
       !.buf = @ \o SubSeq(req[p].rest, 1, k),
       !.rest = SubSeq(@, k + 1, Len(@)),
       !.polled_after_end = @ \/ req[p].read_all])
  /\ UNCHANGED <<block_size, now, uuids, tables, get_resp, sent, others>>

\* self.body.next() yields None: the body has ended
BodyEnd(p) ==
  /\ req[p].chunk = "reading"
  /\ ChunkerMustRead(req[p])
  /\ req[p].rest = <<>>
  /\ SetReq(p, [req[p] EXCEPT
       !.read_all = TRUE,
       !.polled_after_end = @ \/ req[p].read_all])
  /\ UNCHANGED <<block_size, now, uuids, tables, get_resp, sent, others>>

\* self.body.next() yields an error: next() returns it (block?)
BodyError(p) ==
  /\ req[p].chunk = "reading"
  /\ ChunkerMustRead(req[p])
  /\ SetReq(p, [req[p] EXCEPT !.chunk = "err"])
  /\ UNCHANGED <<block_size, now, uuids, tables, get_resp, sent, others>>

\* the loop has ended: next() returns None or a block drained from the buffer
ChunkerReturn(p) ==
  /\ req[p].chunk = "reading"
  /\ ~ChunkerMustRead(req[p])
  /\ LET t == ChunkerTake(req[p].buf) IN
     SetReq(p, [req[p] EXCEPT
       !.chunk = "done",
       !.next_block = t.ret,
       !.buf = t.buf,
       !.emitted = IF t.ret.some THEN Append(@, t.ret.block) ELSE @])
  /\ UNCHANGED <<block_size, now, uuids, tables, get_resp, sent, others>>

(* ----------------------------- handle_put ------------------------------ *)

\* an entry handed to a table by insert(), as the table sends it to the nodes
ObjectEntry(v) == [table |-> "object", uuid |-> v.uuid, object |-> ObjectNew(<<v>>),
                   version |-> NoVersion]
VersionEntry(u, version) == [table |-> "version", uuid |-> u, object |-> NoObject,
                             version |-> version]

\* garage.object_table.insert(&object): the table merges the inserted Object
\* into the stored one and replicates it
ObjectInsert(v) ==
  /\ object_table' = ObjectMerge(object_table, ObjectNew(<<v>>))
  /\ sent' = sent \cup {ObjectEntry(v)}

\* let version_uuid = gen_uuid(); let mut chunker = BodyChunker::new(..);
\* chunker.next() is awaited
PutStart(p, body) ==
  /\ CanStart(p)
  /\ \E u \in Uuids \ uuids :
       /\ uuids' = uuids \cup {u}
       /\ SetReq(p, [IdleReq EXCEPT
            !.pc = "first", !.op = "put", !.uuid = u, !.mime_type = "text/plain",
            !.body = body, !.rest = body, !.chunk = "reading", !.calls = 1])
  /\ UNCHANGED <<block_size, now, tables, get_resp, sent, others>>

\* mutant: a first block of exactly INLINE_THRESHOLD bytes is inlined too
IsInlineLe(first_block) == Len(first_block) <= INLINE_THRESHOLD

\* if first_block.len() < INLINE_THRESHOLD
IsInline(first_block) == Len(first_block) < INLINE_THRESHOLD

\* the first chunker.next() has returned: error, empty body, inline or streaming
PutFirst(p) ==
  /\ req[p].pc = "first"
  /\ req[p].chunk \in {"done", "err"}
  /\ LET r == req[p] IN
     IF r.chunk = "err"
       THEN SetReq(p, Return(r, Err("Transport")))
     ELSE IF ~r.next_block.some
       THEN SetReq(p, Return(r, Err("BadRequest: Empty body")))
     ELSE SetReq(p, [r EXCEPT
            !.pc = IF IsInline(r.next_block.block) THEN "inline_insert" ELSE "prov_insert",
            !.chunk = "none",
            !.ts = now,
            !.first_block = r.next_block.block,
            !.count.object = @ + 1])
  /\ UNCHANGED <<block_size, now, uuids, tables, get_resp, sent, others>>

\* inline path: the single insert of the complete Inline version succeeds
InlineInsert(p) ==
  /\ req[p].pc = "inline_insert"
  /\ LET r == req[p] IN
     /\ ObjectInsert(ObjectVersion(r.uuid, r.ts, r.mime_type, Len(r.first_block), TRUE,
                                   Inline(r.first_block)))
     /\ SetReq(p, Return(r, Ok(r.uuid)))
  /\ UNCHANGED <<block_size, now, uuids, version_table, block_ref_table, block_store, get_resp, others>>

\* put_block_meta(garage, &version, offset, hash): clone of the empty Version plus one block
PutBlockMeta(offset, h) ==
  LET a == add_block(VersionNew(FALSE, <<>>), VersionBlock(offset, h)) IN
  [st |-> IF a.ok THEN "pending" ELSE "panic", offset |-> offset, hash |-> h,
   version_ins |-> "pending", block_ref_ins |-> "pending"]

\* garage.block_manager.rpc_put_block(hash, block)
RpcPutBlock(h, block) == [st |-> "pending", hash |-> h, block |-> block]

\* streaming path: the provisional insert succeeds; put_block_meta(0, h0),
\* rpc_put_block(h0, B0) and chunker.next() are joined
ProvInsert(p) ==
  /\ req[p].pc = "prov_insert"
  /\ LET r == req[p]
         h == hash(r.first_block) IN
     /\ ObjectInsert(ObjectVersion(r.uuid, r.ts, r.mime_type, Len(r.first_block), FALSE,
                                   FirstBlock(h)))
     /\ SetReq(p, [r EXCEPT
          !.pc = "join",
          !.next_offset = Len(r.first_block),
          !.put_curr_version_block = PutBlockMeta(0, h),
          !.put_curr_block = RpcPutBlock(h, r.first_block),
          !.chunk = "reading", !.calls = @ + 1,
          !.count.version = @ + 1, !.count.block_ref = @ + 1, !.count.put_block = @ + 1])
  /\ UNCHANGED <<block_size, now, uuids, version_table, block_ref_table, block_store, get_resp, others>>

\* an awaited object table insert fails: handle_put returns the error
ObjectInsertFail(p) ==
  /\ req[p].pc \in {"inline_insert", "prov_insert", "final_insert", "del_insert"}
  /\ SetReq(p, Return(req[p], Err("Quorum")))
  /\ UNCHANGED <<block_size, now, uuids, tables, get_resp, sent, others>>

\* chunker.next() of the join has returned an error (or
\* add_block(..).unwrap() of put_block_meta has panicked)
JoinFailed(r) ==
  \/ r.chunk = "err"
  \/ r.put_curr_version_block.st = "panic"

\* the write quorum acknowledges the block
RpcPutBlockAck(p) ==
  /\ req[p].pc = "join"
  /\ ~JoinFailed(req[p])
  /\ req[p].put_curr_block.st = "pending"
  /\ block_store' = (req[p].put_curr_block.hash :> req[p].put_curr_block.block) @@ block_store
  /\ SetReq(p, [req[p] EXCEPT !.put_curr_block.st = "done"])
  /\ UNCHANGED <<block_size, now, uuids, object_table, version_table, block_ref_table, get_resp, sent, others>>

MetaState(v, b) == IF v = "done" /\ b = "done" THEN "done" ELSE "pending"

\* garage.version_table.insert(&version) of put_block_meta completes
VersionInsert(p) ==
  /\ req[p].pc = "join"
  /\ ~JoinFailed(req[p])
  /\ req[p].put_curr_version_block.st = "pending"
  /\ req[p].put_curr_version_block.version_ins = "pending"
  /\ LET m == req[p].put_curr_version_block
         v == add_block(VersionNew(FALSE, <<>>), VersionBlock(m.offset, m.hash)).version IN
     /\ version_table' = [version_table EXCEPT ![req[p].uuid] = VersionMerge(@, v)]
     /\ sent' = sent \cup {VersionEntry(req[p].uuid, v)}
     /\ SetReq(p, [req[p] EXCEPT
          !.put_curr_version_block.version_ins = "done",
          !.put_curr_version_block.st = MetaState("done", m.block_ref_ins)])
  /\ UNCHANGED <<block_size, now, uuids, object_table, block_ref_table, block_store, get_resp, others>>

\* garage.block_ref_table.insert(&block_ref) of put_block_meta completes
BlockRefInsert(p) ==
  /\ req[p].pc = "join"
  /\ ~JoinFailed(req[p])
  /\ req[p].put_curr_version_block.st = "pending"
  /\ req[p].put_curr_version_block.block_ref_ins = "pending"
  /\ LET m == req[p].put_curr_version_block IN
     /\ block_ref_table' = BlockRefMerge(block_ref_table, BlockRef(m.hash, req[p].uuid, FALSE))
     /\ SetReq(p, [req[p] EXCEPT
          !.put_curr_version_block.block_ref_ins = "done",
          !.put_curr_version_block.st = MetaState(m.version_ins, "done")])
  /\ UNCHANGED <<block_size, now, uuids, object_table, version_table, block_store, get_resp, sent, others>>

\* the rpc_put_block of the join fails: try_join!(..)? returns the error and
\* the other futures are dropped
RpcPutBlockFail(p) ==
  /\ req[p].pc = "join"
  /\ ~JoinFailed(req[p])
  /\ req[p].put_curr_block.st = "pending"
  /\ SetReq(p, Return(req[p], Err("Quorum")))
  /\ UNCHANGED <<block_size, now, uuids, tables, get_resp, sent, others>>

\* an insert of put_block_meta fails: its try_join! and the one of handle_put
\* return the error and the other futures are dropped
PutBlockMetaFail(p) ==
  /\ req[p].pc = "join"
  /\ ~JoinFailed(req[p])
  /\ req[p].put_curr_version_block.st = "pending"
  /\ SetReq(p, Return(req[p], Err("Quorum")))
  /\ UNCHANGED <<block_size, now, uuids, tables, get_resp, sent, others>>

\* the body read of the join has failed: try_join!(..)? returns the error and
\* the other futures are dropped
JoinError(p) ==
  /\ req[p].pc = "join"
  /\ JoinFailed(req[p])
  /\ SetReq(p, Return(req[p],
       IF req[p].put_curr_version_block.st = "panic" THEN Panic ELSE Err("Transport")))
  /\ UNCHANGED <<block_size, now, uuids, tables, get_resp, sent, others>>

\* mutant: the join does not wait for rpc_put_block
JoinCompleteNoBlock(r) ==
  /\ r.put_curr_version_block.st = "done"
  /\ r.chunk = "done"

\* mutant: join! instead of try_join!, a failed body read counts as completed
JoinCompleteIgnoreErr(r) ==
  /\ r.put_curr_block.st = "done"
  /\ r.put_curr_version_block.st = "done"
  /\ r.chunk \in {"done", "err"}

\* mutant: the join does not wait for put_block_meta
JoinCompleteNoMeta(r) ==
  /\ r.put_curr_block.st = "done"
  /\ r.chunk = "done"

\* all three futures of try_join! have completed
JoinComplete(r) ==
  /\ r.put_curr_block.st = "done"
  /\ r.put_curr_version_block.st = "done"
  /\ r.chunk = "done"

\* mutant: the offset advances by block_size whatever the length of the block
NextOffsetBlockSize(next_offset, block) == next_offset + block_size

\* mutant: next_offset is not advanced
NextOffsetStuck(next_offset, block) == next_offset

\* next_offset += block_len
NextOffset(next_offset, block) == next_offset + Len(block)

\* the join has completed with Some(block): the next round is started
JoinNext(p) ==
  /\ req[p].pc = "join"
  /\ JoinComplete(req[p])
  /\ req[p].next_block.some
  /\ LET r == req[p]
         block == r.next_block.block
         h == hash(block) IN
     SetReq(p, [r EXCEPT
       !.put_curr_version_block = PutBlockMeta(r.next_offset, h),
       !.put_curr_block = RpcPutBlock(h, block),
       !.next_offset = NextOffset(@, block),
       !.chunk = "reading", !.calls = @ + 1,
       !.count.version = @ + 1, !.count.block_ref = @ + 1, !.count.put_block = @ + 1])
  /\ UNCHANGED <<block_size, now, uuids, tables, get_resp, sent, others>>

\* the join has completed with None: break, and the final insert is awaited
JoinBreak(p) ==
  /\ req[p].pc = "join"
  /\ JoinComplete(req[p])
  /\ ~req[p].next_block.some
  /\ SetReq(p, [req[p] EXCEPT !.pc = "final_insert", !.chunk = "none", !.count.object = @ + 1])
  /\ UNCHANGED <<block_size, now, uuids, tables, get_resp, sent, others>>

\* mutant: the size of the first block is left in the final version
FinalVersionFirstSize(r) ==
  ObjectVersion(r.uuid, r.ts, r.mime_type, Len(r.first_block), TRUE,
                FirstBlock(hash(r.first_block)))

\* object_version.is_complete = true; object_version.size = next_offset
FinalVersion(r) ==
  ObjectVersion(r.uuid, r.ts, r.mime_type, r.next_offset, TRUE,
                FirstBlock(hash(r.first_block)))

\* the final insert succeeds: is_complete = true, size = next_offset
FinalInsert(p) ==
  /\ req[p].pc = "final_insert"
  /\ LET r == req[p] IN
     /\ ObjectInsert(FinalVersion(r))
     /\ SetReq(p, Return(r, Ok(r.uuid)))
  /\ UNCHANGED <<block_size, now, uuids, version_table, block_ref_table, block_store, get_resp, others>>

(* ---------------------------- handle_delete ---------------------------- *)

\* mutant: only complete versions count as active (the filter of handle_head)
has_active_version_complete(o) ==
  \E i \in 1..Len(o.versions) :
    o.versions[i].is_complete /\ o.versions[i].data # DeleteMarker

\* the loop over o.versions(): some version is not a DeleteMarker
has_active_version(o) ==
  \E i \in 1..Len(o.versions) : o.versions[i].data # DeleteMarker

\* exists: the object is in the table and has an active version
DeleteExists(o) == IF ~o.some THEN FALSE ELSE has_active_version(o)

\* object_table.get(..) has returned; without an active version the zero uuid
\* is returned, else gen_uuid() and now_msec() are taken and the insert is awaited
DeleteStart(p) ==
  /\ CanStart(p)
  /\ LET r == [IdleReq EXCEPT !.op = "delete", !.seen = object_table, !.before = Returned] IN
     IF ~DeleteExists(object_table)
     THEN /\ SetReq(p, Return(r, Ok(ZeroUuid)))
          /\ UNCHANGED uuids
     ELSE \E u \in Uuids \ uuids :
            /\ uuids' = uuids \cup {u}
            /\ SetReq(p, [r EXCEPT !.pc = "del_insert", !.uuid = u, !.ts = now,
                                   !.mime_type = "application/x-delete-marker",
                                   !.count.object = @ + 1])
  /\ UNCHANGED <<block_size, now, tables, get_resp, sent, others>>

\* the insert of the DeleteMarker version succeeds
DeleteInsert(p) ==
  /\ req[p].pc = "del_insert"
  /\ LET r == req[p] IN
     /\ ObjectInsert(ObjectVersion(r.uuid, r.ts, r.mime_type, 0, TRUE, DeleteMarker))
     /\ SetReq(p, Return(r, Ok(r.uuid)))
  /\ UNCHANGED <<block_size, now, uuids, version_table, block_ref_table, block_store, get_resp, others>>

(* ------------------------------ handle_get ----------------------------- *)

NotFound == [NoResponse EXCEPT !.status = "NotFound"]

\* object_headers(version) with status 200 and the given body
Response(version, body, aborted) ==
  [status |-> "Ok", body |-> body, aborted |-> aborted,
   content_type |-> version.mime_type, content_length |-> version.size,
   last_modified |-> version.timestamp]

\* mutant: .rev() is missing, the first complete version is taken
LastCompleteNoRev(vs) ==
  LET c == {i \in 1..Len(vs) : vs[i].is_complete} IN
  IF c = {} THEN 0 ELSE CHOOSE i \in c : \A j \in c : i <= j

\* versions().iter().rev().filter(|v| v.is_complete).next(): index, or 0
LastComplete(vs) ==
  LET c == {i \in 1..Len(vs) : vs[i].is_complete} IN
  IF c = {} THEN 0 ELSE CHOOSE i \in c : \A j \in c : j <= i

\* the streamed body from block i on: blocks fetched in order with
\* rpc_get_block, the stream aborting at the first block that is unavailable
RECURSIVE StreamBlocks(_, _, _)
StreamBlocks(blocks, i, store) ==
  IF i > Len(blocks) THEN [body |-> <<>>, aborted |-> FALSE]
  ELSE IF blocks[i].hash \notin DOMAIN store THEN [body |-> <<>>, aborted |-> TRUE]
  ELSE LET t == StreamBlocks(blocks, i + 1, store) IN
       [body |-> store[blocks[i].hash] \o t.body, aborted |-> t.aborted]

\* handle_get on the locally merged tables
handle_get(o, vt, store) ==
  IF ~o.some THEN NotFound
  ELSE IF LastComplete(o.versions) = 0 THEN NotFound
  ELSE LET last_v == o.versions[LastComplete(o.versions)] IN
    IF last_v.data.tag = "DeleteMarker" THEN NotFound
    ELSE IF last_v.data.tag = "Inline" THEN Response(last_v, last_v.data.bytes, FALSE)
    ELSE IF last_v.data.hash \notin DOMAIN store
      THEN [NoResponse EXCEPT !.status = "BlockUnavailable"]
    ELSE IF ~vt[last_v.uuid].some THEN NotFound
    ELSE IF vt[last_v.uuid].blocks = <<>> THEN [NoResponse EXCEPT !.status = "Panic"]
    ELSE LET t == StreamBlocks(vt[last_v.uuid].blocks, 2, store) IN
         Response(last_v, store[last_v.data.hash] \o t.body, t.aborted)

\* a GET request is served from the tables
HandleGet ==
  /\ get_resp' = handle_get(object_table, version_table, block_store)
  /\ UNCHANGED <<block_size, now, uuids, tables, req, sent, others>>

\* a GET request is served by the second node from its tables (blocks are
\* fetched from the block manager, which is shared)
HandleGetNode ==
  /\ get_resp' = handle_get(node_object_table, node_version_table, block_store)
  /\ UNCHANGED <<block_size, now, uuids, tables, req, sent, others>>

(* ------------------------------ replication ---------------------------- *)

\* the second node receives an inserted entry (again, when it has received it
\* before) and merges it with the entry it holds
Deliver(m) ==
  /\ m \in sent
  /\ delivered' = delivered \cup {m}
  /\ IF m.table = "object"
     THEN /\ node_object_table' = ObjectMerge(node_object_table, m.object)
          /\ UNCHANGED node_version_table
     ELSE /\ node_version_table' = [node_version_table EXCEPT ![m.uuid] = VersionMerge(@, m.version)]
          /\ UNCHANGED node_object_table
  /\ UNCHANGED <<block_size, now, uuids, tables, req, get_resp, sent, head_resp, get_stream,
                 bucket_in, bucket_out>>

(* ------------------------------ handle_head --------------------------- *)

\* versions().iter().rev().filter(|v| v.is_complete && v.data != DeleteMarker).next():
\* index, or 0
LastCompleteNotDeleted(vs) ==
  LET c == {i \in 1..Len(vs) : vs[i].is_complete /\ vs[i].data # DeleteMarker} IN
  IF c = {} THEN 0 ELSE CHOOSE i \in c : \A j \in c : j <= i

\* handle_head on the locally merged object table: the headers of the version
\* selected and an empty body
handle_head(o) ==
  IF ~o.some THEN NotFound
  ELSE IF LastCompleteNotDeleted(o.versions) = 0 THEN NotFound
  ELSE Response(o.versions[LastCompleteNotDeleted(o.versions)], <<>>, FALSE)

\* a HEAD request is served from the object table
HandleHead ==
  /\ head_resp' = handle_head(object_table)
  /\ UNCHANGED <<block_size, now, uuids, tables, req, get_resp, sent, replica, get_stream,
                 bucket_in, bucket_out>>

(* ------------------------- handle_get: body stream --------------------- *)

\* .buffered(2): futures the body stream keeps in progress
buffered == 2

\* no GET response body is being streamed
NoStream == [st |-> "none"]

\* mutant: the prefetched first block is not put into the list
StreamItemsNoPrefetch(blocks, first_block) ==
  [i \in 1..Len(blocks) |-> [hash |-> blocks[i].hash, data_opt |-> None]]

\* version.blocks().iter().map(|vb| (vb.hash, None)); blocks[0].1 = Some(first_block)
StreamItems(blocks, first_block) ==
  [i \in 1..Len(blocks) |->
     [hash |-> blocks[i].hash, data_opt |-> IF i = 1 THEN Some(first_block) ELSE None]]

\* the future of item i when first polled: ready with the prefetched bytes, or
\* waiting for rpc_get_block(hash)
StreamFuture(items, i) ==
  IF items[i].data_opt.some
  THEN [i |-> i, st |-> "ready", data |-> items[i].data_opt.block]
  ELSE [i |-> i, st |-> "fetching", data |-> <<>>]

\* Buffered::poll_next, first part: futures of the next items are pushed while
\* fewer than buffered are in progress
RECURSIVE StreamFill(_, _, _)
StreamFill(items, queue, next) ==
  IF Len(queue) < buffered /\ next <= Len(items)
  THEN StreamFill(items, Append(queue, StreamFuture(items, next)), next + 1)
  ELSE [queue |-> queue, next |-> next]

\* handle_get has selected a complete FirstBlock version, fetched its first
\* block and loaded its Version record: the response is returned with the
\* body stream over the blocks of the record
GetOpen ==
  /\ get_stream = NoStream
  /\ object_table.some
  /\ LastComplete(object_table.versions) # 0
  /\ LET last_v == object_table.versions[LastComplete(object_table.versions)]
         version == version_table[last_v.uuid] IN
     /\ last_v.data.tag = "FirstBlock"
     /\ last_v.data.hash \in DOMAIN block_store
     /\ version.some /\ version.blocks # <<>>
     /\ get_stream' =
          [st |-> "open",
           items |-> StreamItems(version.blocks, block_store[last_v.data.hash]),
           next |-> 1, queue |-> <<>>, out |-> <<>>,
           fetches |-> [i \in 1..Len(version.blocks) |-> 0],
           reordered |-> FALSE]
  /\ UNCHANGED <<block_size, now, uuids, tables, req, get_resp, sent, replica, head_resp,
                 bucket_in, bucket_out>>

\* the consumer polls the body: the queue is filled, the futures pushed start
\* their rpc_get_block, and the first future in order is yielded when it has
\* its block (an error ends the body); the stream ends with the last block
StreamPoll ==
  /\ get_stream.st = "open"
  /\ LET g == get_stream
         f == StreamFill(g.items, g.queue, g.next)
         started == {f.queue[k].i : k \in (Len(g.queue) + 1)..Len(f.queue)}
         fetches == [i \in DOMAIN g.fetches |->
                       IF i \in started /\ ~g.items[i].data_opt.some
                       THEN g.fetches[i] + 1 ELSE g.fetches[i]]
         filled == [g EXCEPT !.queue = f.queue, !.next = f.next, !.fetches = fetches] IN
     /\ get_stream' =
          IF f.queue = <<>> THEN [filled EXCEPT !.st = "end"]
          ELSE IF f.queue[1].st = "ready"
            THEN [filled EXCEPT !.queue = Tail(f.queue), !.out = Append(g.out, f.queue[1].data)]
          ELSE IF f.queue[1].st = "failed"
            THEN [filled EXCEPT !.st = "aborted", !.queue = <<>>]
          ELSE filled
     /\ get_stream' # get_stream
  /\ UNCHANGED <<block_size, now, uuids, tables, req, get_resp, sent, replica, head_resp,
                 bucket_in, bucket_out>>

\* the rpc_get_block of the k-th future in progress returns the block
GetBlockDone(k) ==
  /\ get_stream.st = "open"
  /\ k \in 1..Len(get_stream.queue)
  /\ get_stream.queue[k].st = "fetching"
  /\ get_stream.items[get_stream.queue[k].i].hash \in DOMAIN block_store
  /\ get_stream' = [get_stream EXCEPT
       !.queue[k].st = "ready",
       !.queue[k].data = block_store[get_stream.items[get_stream.queue[k].i].hash],
       !.reordered = @ \/ \E j \in 1..(k - 1) : get_stream.queue[j].st = "fetching"]
  /\ UNCHANGED <<block_size, now, uuids, tables, req, get_resp, sent, replica, head_resp,
                 bucket_in, bucket_out>>

\* the rpc_get_block of the k-th future in progress fails
GetBlockFail(k) ==
  /\ get_stream.st = "open"
  /\ k \in 1..Len(get_stream.queue)
  /\ get_stream.queue[k].st = "fetching"
  /\ get_stream' = [get_stream EXCEPT !.queue[k].st = "failed"]
  /\ UNCHANGED <<block_size, now, uuids, tables, req, get_resp, sent, replica, head_resp,
                 bucket_in, bucket_out>>

(* ----------------------------- bucket table ---------------------------- *)

\* crdt::LWW<T>: a timestamped value
LWW(ts, v) == [ts |-> ts, v |-> v]

\* PermissionSet, ordered as its derived Ord orders it
PermissionSet(r, w) == [allow_read |-> r, allow_write |-> w]
PermissionSets == {PermissionSet(TRUE, FALSE), PermissionSet(TRUE, TRUE)}
BoolLess(a, b) == ~a /\ b
PermissionLess(a, b) ==
  \/ BoolLess(a.allow_read, b.allow_read)
  \/ a.allow_read = b.allow_read /\ BoolLess(a.allow_write, b.allow_write)

\* merge of two values that carry no merge of their own: the larger one
PermissionMerge(a, b) == IF PermissionLess(a, b) THEN b ELSE a
BoolMerge(a, b) == a \/ b

\* crdt::LWW::merge: the later timestamp wins, equal timestamps merge the
\* values (merged is self.v.merge(&other.v))
LWWMerge(self, other, merged) ==
  IF other.ts > self.ts THEN other
  ELSE IF other.ts = self.ts THEN LWW(self.ts, merged)
  ELSE self

\* crdt::LWWMap<String, PermissionSet>: key -> absent, or a timestamped value
BucketKeys == {"key1"}
NoItem == [some |-> FALSE, ts |-> 0, v |-> PermissionSet(FALSE, FALSE)]
Item(ts, v) == [some |-> TRUE, ts |-> ts, v |-> v]

\* crdt::LWWMap::merge: per key, the item present, or the LWW winner
LWWMapMerge(self, other) ==
  [k \in BucketKeys |->
     IF ~other[k].some THEN self[k]
     ELSE IF ~self[k].some THEN other[k]
     ELSE LET m == LWWMerge(LWW(self[k].ts, self[k].v), LWW(other[k].ts, other[k].v),
                            PermissionMerge(self[k].v, other[k].v)) IN
          Item(m.ts, m.v)]

\* BucketParams
BucketParams(authorized_keys, website) ==
  [authorized_keys |-> authorized_keys, website |-> website]
NoParams == BucketParams([k \in BucketKeys |-> NoItem], LWW(0, FALSE))

\* BucketParams::merge: field-wise
BucketParamsMerge(self, o) ==
  BucketParams(LWWMapMerge(self.authorized_keys, o.authorized_keys),
               LWWMerge(self.website, o.website, BoolMerge(self.website.v, o.website.v)))

\* BucketState
Deleted == [tag |-> "Deleted", params |-> NoParams]
Present(params) == [tag |-> "Present", params |-> params]

\* mutant: a Present state replaces a Deleted one
BucketStateMergeRevive(self, o) ==
  IF o.tag = "Deleted" THEN Deleted
  ELSE IF self.tag = "Present" THEN Present(BucketParamsMerge(self.params, o.params))
  ELSE o

\* BucketState::merge
BucketStateMerge(self, o) ==
  IF o.tag = "Deleted" THEN Deleted
  ELSE IF self.tag = "Present" THEN Present(BucketParamsMerge(self.params, o.params))
  ELSE self

\* Bucket (the name is the key of the entry)
Bucket(state) == [name |-> "b", state |-> state]

\* Bucket::merge: self.state.merge(&other.state)
BucketMerge(self, other) ==
  [self EXCEPT !.state = LWWMerge(self.state, other.state,
                                  BucketStateMerge(self.state.v, other.state.v))]

\* the Bucket entries within the bounds
BucketTimes == 0..MaxBucketTime
AllItems == {NoItem} \cup {Item(ts, v) : ts \in BucketTimes, v \in PermissionSets}
AllParams ==
  {BucketParams(ak, LWW(ts, w)) :
     ak \in [BucketKeys -> AllItems], ts \in BucketTimes, w \in BOOLEAN}
AllBucketStates == {Deleted} \cup {Present(params) : params \in AllParams}
AllBuckets == {Bucket(LWW(ts, st)) : ts \in BucketTimes, st \in AllBucketStates}

\* the bucket table merges entries a, b and c in every order and grouping
BucketMergeAll ==
  /\ bucket_out = <<>>
  /\ LET a == bucket_in[1]
         b == bucket_in[2]
         c == bucket_in[3] IN
     bucket_out' = [ab |-> BucketMerge(a, b), ba |-> BucketMerge(b, a),
                    ab_c |-> BucketMerge(BucketMerge(a, b), c),
                    a_bc |-> BucketMerge(a, BucketMerge(b, c)),
                    aa |-> BucketMerge(a, a)]
  /\ UNCHANGED <<block_size, now, uuids, tables, req, get_resp, sent, replica, head_resp,
                 get_stream, bucket_in>>

(* ------------------------------- clock --------------------------------- *)

\* the wall clock advances by a millisecond
Tick ==
  /\ now < MaxTime
  /\ now' = now + 1
  /\ UNCHANGED <<block_size, uuids, tables, req, get_resp, sent, others>>

(* --------------------------- specifications ---------------------------- *)

\* uuid of a version written before the requests of the model
OldUuid == NumProcs + 1

\* what the key holds when the requests start: nothing, or the DeleteMarker of
\* an earlier DELETE whose older versions have since been collected
InitialObjects ==
  {NoObject,
   ObjectNew(<<ObjectVersion(OldUuid, 0, "application/x-delete-marker", 0, TRUE, DeleteMarker)>>)}

InitData(sizes, objects) ==
  /\ block_size \in sizes
  /\ now = 1
  /\ uuids = {}
  /\ object_table \in objects
  /\ version_table = [u \in Uuids |-> NoVersion]
  /\ block_ref_table = {}
  /\ block_store = <<>>
  /\ req = [p \in Procs |-> IdleReq]
  /\ get_resp = NoResponse
  /\ sent = {}
  /\ delivered = {}
  /\ node_object_table = NoObject
  /\ node_version_table = [u \in Uuids |-> NoVersion]
  /\ head_resp = NoResponse
  /\ get_stream = NoStream

InitWith(sizes, objects) ==
  /\ InitData(sizes, objects)
  /\ bucket_in = <<>>
  /\ bucket_out = <<>>

Init == InitWith(BlockSizes, InitialObjects)

\* concurrent PUT and DELETE requests with failures, and GETs; the transport
\* delivers what is left of a body in one frame
Next ==
  \/ \E p \in Procs, body \in Bodies : PutStart(p, body)
  \/ \E p \in Procs : BodyFrame(p, Len(req[p].rest))
  \/ \E p \in Procs : BodyEnd(p)
  \/ \E p \in Procs : BodyError(p)
  \/ \E p \in Procs : ChunkerReturn(p)
  \/ \E p \in Procs : PutFirst(p)
  \/ \E p \in Procs : InlineInsert(p)
  \/ \E p \in Procs : ProvInsert(p)
  \/ \E p \in Procs : ObjectInsertFail(p)
  \/ \E p \in Procs : RpcPutBlockAck(p)
  \/ \E p \in Procs : VersionInsert(p)
  \/ \E p \in Procs : BlockRefInsert(p)
  \/ \E p \in Procs : RpcPutBlockFail(p)
  \/ \E p \in Procs : PutBlockMetaFail(p)
  \/ \E p \in Procs : JoinError(p)
  \/ \E p \in Procs : JoinNext(p)
  \/ \E p \in Procs : JoinBreak(p)
  \/ \E p \in Procs : FinalInsert(p)
  \/ \E p \in Procs : DeleteStart(p)
  \/ \E p \in Procs : DeleteInsert(p)
  \/ HandleGet
  \/ Tick

Spec == Init /\ [][Next]_vars

\* PUT and DELETE requests without failures, and GETs and HEADs between them
NextRead ==
  \/ \E p \in Procs, body \in Bodies : PutStart(p, body)
  \/ \E p \in Procs : BodyFrame(p, Len(req[p].rest))
  \/ \E p \in Procs : BodyEnd(p)
  \/ \E p \in Procs : ChunkerReturn(p)
  \/ \E p \in Procs : PutFirst(p)
  \/ \E p \in Procs : InlineInsert(p)
  \/ \E p \in Procs : ProvInsert(p)
  \/ \E p \in Procs : RpcPutBlockAck(p)
  \/ \E p \in Procs : VersionInsert(p)
  \/ \E p \in Procs : BlockRefInsert(p)
  \/ \E p \in Procs : JoinNext(p)
  \/ \E p \in Procs : JoinBreak(p)
  \/ \E p \in Procs : FinalInsert(p)
  \/ \E p \in Procs : DeleteStart(p)
  \/ \E p \in Procs : DeleteInsert(p)
  \/ HandleGet
  \/ HandleHead
  \/ Tick

InitRead == InitWith(BlockSizes, {NoObject})

SpecRead == InitRead /\ [][NextRead]_vars

\* one PUT without failures whose inserts reach a second node in any order,
\* and GETs served by that node
NextRep ==
  \/ \E body \in Bodies : PutStart(1, body)
  \/ BodyFrame(1, Len(req[1].rest))
  \/ BodyEnd(1)
  \/ ChunkerReturn(1)
  \/ PutFirst(1)
  \/ InlineInsert(1)
  \/ ProvInsert(1)
  \/ RpcPutBlockAck(1)
  \/ VersionInsert(1)
  \/ BlockRefInsert(1)
  \/ JoinNext(1)
  \/ JoinBreak(1)
  \/ FinalInsert(1)
  \/ \E m \in sent : Deliver(m)
  \/ HandleGetNode
  \/ Tick

SpecRep == InitRead /\ [][NextRep]_vars

\* two concurrent PUTs without failures whose inserts reach a second node in
\* any order, and GETs served by that node
NextConverge ==
  \/ \E p \in Procs, body \in BodiesConverge : PutStart(p, body)
  \/ \E p \in Procs : BodyFrame(p, Len(req[p].rest))
  \/ \E p \in Procs : BodyEnd(p)
  \/ \E p \in Procs : ChunkerReturn(p)
  \/ \E p \in Procs : PutFirst(p)
  \/ \E p \in Procs : InlineInsert(p)
  \/ \E p \in Procs : ProvInsert(p)
  \/ \E p \in Procs : RpcPutBlockAck(p)
  \/ \E p \in Procs : VersionInsert(p)
  \/ \E p \in Procs : BlockRefInsert(p)
  \/ \E p \in Procs : JoinNext(p)
  \/ \E p \in Procs : JoinBreak(p)
  \/ \E p \in Procs : FinalInsert(p)
  \/ \E m \in sent : Deliver(m)
  \/ HandleGetNode
  \/ Tick

SpecConverge == InitRead /\ [][NextConverge]_vars

\* Bucket entries merged by the bucket table
InitBucket ==
  /\ InitData(BlockSizes, {NoObject})
  /\ bucket_in \in AllBuckets \X AllBuckets \X AllBuckets
  /\ bucket_out = <<>>

NextBucket == BucketMergeAll

SpecBucket == InitBucket /\ [][NextBucket]_vars

\* one PUT of a long body with no failure, and GETs after it
NextPut ==
  \/ \E body \in BodiesPut : PutStart(1, body)
  \/ \E k \in 0..MaxFrame : BodyFrame(1, k)
  \/ BodyEnd(1)
  \/ ChunkerReturn(1)
  \/ PutFirst(1)
  \/ InlineInsert(1)
  \/ ProvInsert(1)
  \/ RpcPutBlockAck(1)
  \/ VersionInsert(1)
  \/ BlockRefInsert(1)
  \/ JoinNext(1)
  \/ JoinBreak(1)
  \/ FinalInsert(1)
  \/ HandleGet

InitPut == InitWith(BlockSizesPut, {NoObject})

SpecPut == InitPut /\ [][NextPut]_vars

\* let mut chunker = BodyChunker::new(body, block_size)
ChunkerNew(body) ==
  /\ req[1].pc = "idle"
  /\ SetReq(1, [IdleReq EXCEPT !.pc = "chunker", !.op = "chunker", !.body = body, !.rest = body])
  /\ UNCHANGED <<block_size, now, uuids, tables, get_resp, sent, others>>

\* chunker.next() is called again
CallNext ==
  /\ req[1].pc = "chunker"
  /\ req[1].chunk \in {"none", "done"}
  /\ req[1].calls < MaxCalls
  /\ SetReq(1, [req[1] EXCEPT !.chunk = "reading", !.calls = @ + 1])
  /\ UNCHANGED <<block_size, now, uuids, tables, get_resp, sent, others>>

InitChunker == InitWith(1..MaxBlockSizePut, {NoObject})

\* one PUT of a long body with no failure, and a GET whose body is streamed
\* while the get_block RPCs complete in any order
NextGet ==
  \/ NextPut
  \/ GetOpen
  \/ StreamPoll
  \/ \E k \in 1..buffered : GetBlockDone(k)
  \/ \E k \in 1..buffered : GetBlockFail(k)

SpecGet == InitPut /\ [][NextGet]_vars

\* one PUT under every block_size, those below INLINE_THRESHOLD included
InitInline == InitWith(1..MaxBlockSizePut, {NoObject})

SpecInline == InitInline /\ [][NextPut]_vars

\* successive calls of next() on one chunker, for every body, block_size and framing
NextChunker ==
  \/ \E body \in BodiesPut : ChunkerNew(body)
  \/ CallNext
  \/ \E k \in 0..MaxFrame : BodyFrame(1, k)
  \/ BodyEnd(1)
  \/ BodyError(1)
  \/ ChunkerReturn(1)

SpecChunker == InitChunker /\ [][NextChunker]_vars

(* ------------------------------- claims -------------------------------- *)

RECURSIVE Concat(_)
Concat(blocks) == IF blocks = <<>> THEN <<>> ELSE blocks[1] \o Concat(SubSeq(blocks, 2, Len(blocks)))

\* total length of the first n blocks
RECURSIVE SumLen(_, _)
SumLen(blocks, n) == IF n = 0 THEN 0 ELSE Len(blocks[n]) + SumLen(blocks, n - 1)

\* the last call of next() has returned None
ReturnedNone(r) == r.chunk = "done" /\ ~r.next_block.some

\* C7: successive calls of BodyChunker::next return non-empty blocks, all of
\* length block_size except the last, which has 1..block_size bytes and is
\* returned only when the body has ended; the blocks returned, the buffer and
\* the bytes not yet delivered always make up the body, so that the blocks are
\* the whole body once None is returned; after a None every later call returns
\* None, and the body is never polled once it has ended.
C7_ChunkerOutput ==
  LET r == req[1]
      n == Len(r.emitted) IN
  r.op = "chunker" =>
    /\ \A i \in 1..n : Len(r.emitted[i]) >= 1 /\ Len(r.emitted[i]) <= block_size
    /\ \A i \in 1..(n - 1) : Len(r.emitted[i]) = block_size
    /\ (n > 0 /\ Len(r.emitted[n]) < block_size) => (r.read_all /\ r.buf = <<>>)
    /\ Concat(r.emitted) \o r.buf \o r.rest = r.body
    /\ ReturnedNone(r) => Concat(r.emitted) = r.body
    /\ (r.chunk = "done" /\ r.calls > n) => ~r.next_block.some
    /\ ~r.polled_after_end

\* C7 witness: a body of two full blocks and a shorter one has been returned,
\* followed by None twice
C7_Witness ==
  LET r == req[1] IN
  /\ r.op = "chunker"
  /\ Len(r.emitted) = 3
  /\ Len(r.emitted[3]) < block_size
  /\ ReturnedNone(r)
  /\ r.calls = 5

\* the versions of uuid u in the object table (at most one)
VersionsOf(u) == {i \in 1..Len(object_table.versions) : object_table.versions[i].uuid = u}

\* the request is a PUT that has returned Ok
PutOk(p) == req[p].op = "put" /\ req[p].pc = "done" /\ req[p].result.tag = "Ok"

\* no complete version of another uuid sorts after the version of p
NoLaterWriter(p) ==
  \A i \in 1..Len(object_table.versions) :
    LET v == object_table.versions[i] IN
    (v.uuid # req[p].uuid /\ v.is_complete) =>
      \E j \in VersionsOf(req[p].uuid) : i < j

\* C2: once a PUT of body B has returned Ok, a GET of the key (no other writer
\* having a later complete version) returns status 200 with a body equal to B,
\* streamed to the end, and Content-Length = len(B), on the inline and on the
\* streaming path, for every block_size and framing.
C2_RoundTrip ==
  \A p \in Procs :
    (PutOk(p) /\ NoLaterWriter(p)) =>
      LET g == handle_get(object_table, version_table, block_store) IN
      /\ g.status = "Ok"
      /\ g.body = req[p].body
      /\ ~g.aborted
      /\ g.content_length = Len(req[p].body)

\* C2 witness: a GET has returned the three-block body of a completed PUT
C2_Witness ==
  /\ PutOk(1)
  /\ Len(req[1].emitted) = 3
  /\ get_resp.status = "Ok"
  /\ get_resp.body = req[1].body

\* nothing of uuid u is in the object, version or block-ref table
NoRecordOf(u) ==
  /\ VersionsOf(u) = {}
  /\ ~version_table[u].some
  /\ \A r \in block_ref_table : r.version # u

\* C4: a PUT whose body yields no bytes returns BadRequest("Empty body") (or
\* the transport error of the read) and has changed nothing: it has issued no
\* insert into the object, version or block-ref table and no put_block, and no
\* record of its uuid is in a table; BadRequest is returned for no other body.
C4_EmptyBody ==
  \A p \in Procs :
    /\ (req[p].op = "put" /\ req[p].body = <<>>) =>
         /\ req[p].count = NoCount
         /\ NoRecordOf(req[p].uuid)
         /\ req[p].pc = "done" =>
              /\ req[p].result.tag = "Err"
              /\ req[p].result.err \in {"BadRequest: Empty body", "Transport"}
    /\ (req[p].op = "put" /\ req[p].result.err = "BadRequest: Empty body") =>
         req[p].body = <<>>

\* C4 witness: a PUT of the empty body has returned BadRequest while the
\* tables hold the records of another request
C4_Witness ==
  \E p \in Procs :
    /\ req[p].op = "put" /\ req[p].body = <<>>
    /\ req[p].result = Err("BadRequest: Empty body")
    /\ object_table.some

\* C5: a PUT of INLINE_THRESHOLD - 1 bytes issues one object-table insert, of
\* one complete ObjectVersion with data = Inline(body) and size = len(body), and
\* no Version insert, BlockRef insert or put_block; a PUT of INLINE_THRESHOLD
\* bytes is streamed and has, when the final insert is issued, recorded one
\* block: one put_block, one VersionBlock at offset 0 and one BlockRef.
C5_InlineBoundary ==
  \A p \in Procs :
    LET r == req[p] IN
    /\ (r.op = "put" /\ Len(r.body) = INLINE_THRESHOLD - 1) =>
         /\ r.count.object <= 1
         /\ r.count.version = 0 /\ r.count.block_ref = 0 /\ r.count.put_block = 0
         /\ PutOk(p) =>
              /\ r.count.object = 1
              /\ object_table.versions =
                   <<ObjectVersion(r.uuid, r.ts, r.mime_type, Len(r.body), TRUE, Inline(r.body))>>
    /\ (r.op = "put" /\ Len(r.body) = INLINE_THRESHOLD
          /\ (r.pc = "final_insert" \/ PutOk(p))) =>
         /\ r.count = [object |-> 2, version |-> 1, block_ref |-> 1, put_block |-> 1]
         /\ version_table[r.uuid].blocks = <<VersionBlock(0, hash(r.body))>>
         /\ block_ref_table = {BlockRef(hash(r.body), r.uuid, FALSE)}
         /\ DOMAIN block_store = {hash(r.body)}
         /\ PutOk(p) =>
              object_table.versions =
                <<ObjectVersion(r.uuid, r.ts, r.mime_type, Len(r.body), TRUE,
                                FirstBlock(hash(r.body)))>>

\* C5 witness: a streamed PUT of exactly INLINE_THRESHOLD bytes has returned
C5_Witness ==
  /\ PutOk(1)
  /\ Len(req[1].body) = INLINE_THRESHOLD
  /\ object_table.versions[1].data.tag = "FirstBlock"

\* C5 witness of the inline side: a PUT of INLINE_THRESHOLD - 1 bytes has returned
C5_WitnessInline ==
  /\ PutOk(1)
  /\ Len(req[1].body) = INLINE_THRESHOLD - 1
  /\ object_table.versions[1].data.tag = "Inline"

\* C6: a completed streaming PUT of n = k * block_size + r bytes (r < block_size)
\* has a Version of k blocks (r = 0) or k + 1 blocks, the last of length r; block
\* i is at offset (i - 1) * block_size, the sum of the lengths before it, and
\* carries the hash of those bytes; the committed ObjectVersion is complete
\* with size n.  The body 1..10 with block_size 4 has blocks at 0, 4, 8 of
\* lengths 4, 4, 2 and size 10.
C6_BlockLayout ==
  \A p \in Procs :
    LET r == req[p]
        n == Len(r.body)
        k == n \div block_size
        rem == n % block_size
        blocks == version_table[r.uuid].blocks IN
    (PutOk(p) /\ ~IsInline(r.body)) =>
      /\ Len(blocks) = IF rem = 0 THEN k ELSE k + 1
      /\ Len(r.emitted) = Len(blocks)
      /\ \A i \in 1..Len(blocks) :
           /\ blocks[i].offset = (i - 1) * block_size
           /\ blocks[i].offset = SumLen(r.emitted, i - 1)
           /\ blocks[i].hash = hash(r.emitted[i])
           /\ r.emitted[i] = SubSeq(r.body, blocks[i].offset + 1,
                                    Min(n, blocks[i].offset + block_size))
           /\ Len(r.emitted[i]) = IF i <= k THEN block_size ELSE rem
      /\ \E i \in VersionsOf(r.uuid) :
           /\ object_table.versions[i].size = n
           /\ object_table.versions[i].is_complete
      /\ (block_size = 4 /\ r.body = PatternBody(10, 10)) =>
           /\ [i \in 1..Len(blocks) |-> blocks[i].offset] = <<0, 4, 8>>
           /\ [i \in 1..Len(blocks) |-> Len(r.emitted[i])] = <<4, 4, 2>>

\* C6 witness: the PUT of the ten distinct bytes with block_size 4 has
\* returned, committed with size 10
C6_Witness ==
  /\ PutOk(1)
  /\ block_size = 4
  /\ req[1].body = PatternBody(10, 10)
  /\ Len(version_table[req[1].uuid].blocks) = 3
  /\ object_table.versions[1].size = 10

Range(f) == {f[i] : i \in DOMAIN f}

\* C1: whenever the object table holds a complete FirstBlock version, the PUT
\* of that uuid has chunked its whole body, and for every block of it the
\* put_block has been acknowledged (the block manager holds the bytes under
\* the hash) and the put_block_meta has completed (the Version has the block
\* at its offset and the BlockRef is in the table); and whenever the final
\* insert is awaited, no future of the join is outstanding.
C1_CompleteImpliesFetchable ==
  /\ \A i \in 1..Len(object_table.versions) :
       LET v == object_table.versions[i] IN
       (v.is_complete /\ v.data.tag = "FirstBlock") =>
         \E p \in Procs :
           LET r == req[p] IN
           /\ r.op = "put" /\ r.uuid = v.uuid
           /\ Concat(r.emitted) = r.body
           /\ v.data.hash = hash(r.emitted[1])
           /\ \A j \in 1..Len(r.emitted) :
                LET h == hash(r.emitted[j]) IN
                /\ h \in DOMAIN block_store
                /\ block_store[h] = r.emitted[j]
                /\ VersionBlock(SumLen(r.emitted, j - 1), h)
                     \in Range(version_table[v.uuid].blocks)
                /\ BlockRef(h, v.uuid, FALSE) \in block_ref_table
  /\ \A p \in Procs :
       req[p].pc = "final_insert" =>
         /\ req[p].put_curr_block.st = "done"
         /\ req[p].put_curr_version_block.version_ins = "done"
         /\ req[p].put_curr_version_block.block_ref_ins = "done"
         /\ req[p].chunk # "reading"

\* C1 witness: a two-block PUT has committed is_complete = true while another
\* request is in progress
C1_Witness ==
  \E p \in Procs :
    /\ PutOk(p)
    /\ Len(req[p].emitted) = 2
    /\ \E i \in VersionsOf(req[p].uuid) : object_table.versions[i].is_complete
    /\ \E q \in Procs : Active(q)

\* the request is a PUT that has returned an error
PutErr(p) == req[p].op = "put" /\ req[p].pc = "done" /\ req[p].result.tag = "Err"

\* every record of the tables and every stored block is kept by the step
RecordsKept ==
  /\ \A i \in 1..Len(object_table.versions) :
       \E j \in 1..Len(object_table'.versions) :
         LET v == object_table.versions[i]
             w == object_table'.versions[j] IN
         /\ w.uuid = v.uuid /\ w.timestamp = v.timestamp /\ w.data = v.data
         /\ w.size >= v.size
         /\ v.is_complete => w.is_complete
  /\ \A u \in DOMAIN version_table :
       version_table[u].some =>
         /\ version_table'[u].some
         /\ version_table'[u].deleted = version_table[u].deleted
         /\ Range(version_table[u].blocks) \subseteq Range(version_table'[u].blocks)
  /\ block_ref_table \subseteq block_ref_table'
  /\ \A h \in DOMAIN block_store :
       h \in DOMAIN block_store' /\ block_store'[h] = block_store[h]

\* a PUT with a failed step stays failed until it returns, and returns an error
FailureReturned ==
  \A p \in Procs :
    /\ (req[p].pc = "join" /\ JoinFailed(req[p])) =>
         \/ req'[p] = req[p]
         \/ req'[p].pc = "done" /\ req'[p].result.tag = "Err"
    /\ (req[p].pc = "first" /\ req[p].chunk = "err") =>
         \/ req'[p] = req[p]
         \/ req'[p].pc = "done" /\ req'[p].result.tag = "Err"
    /\ (req[p].pc = "done") => req'[p] = req[p]

\* a failed PUT has left no complete version of its uuid, and with no complete
\* version of another request in the table a GET returns NotFound
NoCommitAfterFailure ==
  \A p \in Procs :
    PutErr(p) =>
      /\ \A i \in VersionsOf(req[p].uuid) : ~object_table.versions[i].is_complete
      /\ (\A i \in 1..Len(object_table.versions) :
            object_table.versions[i].uuid # req[p].uuid
              => ~object_table.versions[i].is_complete)
           => handle_get(object_table, version_table, block_store) = NotFound

\* C3: a failed put_block, put_block_meta insert or body read makes handle_put
\* return an error; afterwards no complete version of its uuid is ever in the
\* object table; no step removes or reverts a record of the object, version or
\* block-ref table or a stored block; and a GET is NotFound when no other
\* request has a complete version.
C3_FailureLeavesRecords ==
  /\ []NoCommitAfterFailure
  /\ [][RecordsKept /\ FailureReturned]_vars

\* C3 witness: a PUT has returned an error after its provisional version, a
\* Version block and a BlockRef were inserted, and they are in the tables
C3_Witness ==
  \E p \in Procs :
    /\ PutErr(p)
    /\ \E i \in VersionsOf(req[p].uuid) : object_table.versions[i].data.tag = "FirstBlock"
    /\ version_table[req[p].uuid].blocks # <<>>
    /\ \E r \in block_ref_table : r.version = req[p].uuid
    /\ get_resp = NotFound

\* the object read is absent or holds DeleteMarker versions only
AbsentOrDeleted(o) ==
  ~o.some \/ \A i \in 1..Len(o.versions) : o.versions[i].data.tag = "DeleteMarker"

\* C8: a DELETE that read no object, or an object whose versions are all
\* DeleteMarkers, returns the zero uuid and issues no insert; any other DELETE
\* draws a fresh non-zero uuid and issues exactly one object-table insert, of
\* one complete DeleteMarker version of size 0 and mime type
\* application/x-delete-marker, returns that uuid, and issues no put_block and
\* no version or block-ref insert.
C8_DeleteOutcome ==
  \A p \in Procs :
    LET r == req[p] IN
    r.op = "delete" =>
      IF AbsentOrDeleted(r.seen)
      THEN /\ r.pc = "done"
           /\ r.result = Ok(ZeroUuid)
           /\ r.count = NoCount
           /\ r.uuid = ZeroUuid
      ELSE /\ r.uuid # ZeroUuid
           /\ \A q \in Procs \ {p} : req[q].uuid # r.uuid
           /\ r.count = [object |-> 1, version |-> 0, block_ref |-> 0, put_block |-> 0]
           /\ ~version_table[r.uuid].some
           /\ \A b \in block_ref_table : b.version # r.uuid
           /\ (r.pc = "done" /\ r.result.tag = "Ok") =>
                /\ r.result.uuid = r.uuid
                /\ Cardinality(VersionsOf(r.uuid)) = 1
                /\ \A i \in VersionsOf(r.uuid) :
                     object_table.versions[i] =
                       ObjectVersion(r.uuid, r.ts, "application/x-delete-marker", 0, TRUE,
                                     DeleteMarker)
           /\ (r.pc = "del_insert" \/ r.result.tag = "Err") => VersionsOf(r.uuid) = {}

\* C8 witness: a DELETE that read an object with a single, incomplete version
\* has inserted its DeleteMarker and returned the uuid
C8_Witness ==
  \E p \in Procs :
    /\ req[p].op = "delete" /\ req[p].pc = "done"
    /\ req[p].result.tag = "Ok" /\ req[p].result.uuid # ZeroUuid
    /\ Len(req[p].seen.versions) = 1
    /\ ~req[p].seen.versions[1].is_complete

\* C8 witness of the no-op side: a DELETE that read DeleteMarkers only
C8_WitnessNoop ==
  \E p \in Procs :
    /\ req[p].op = "delete" /\ req[p].pc = "done"
    /\ req[p].seen.some
    /\ req[p].result = Ok(ZeroUuid)

\* nothing has run since request q started but q itself
Quiet(q) == \A p \in Procs \ {q} : req[p].pc = "idle" \/ p \in req[q].before

\* C9: once a DELETE has returned and nothing else has run since, the DELETE
\* that follows is a no-op returning the zero uuid: handle_delete finds no
\* active version in the object.
C9_DeleteIdempotent ==
  \A q \in Procs :
    (req[q].op = "delete" /\ req[q].pc = "done" /\ req[q].result.tag = "Ok" /\ Quiet(q))
      => ~DeleteExists(object_table)

\* C10: after a PUT has returned Ok and a DELETE started after it has returned
\* a non-zero uuid, a GET returns NotFound, whatever timestamps and uuids the
\* two requests drew.
C10_PutDeleteGet ==
  \A p, q \in Procs :
    (/\ PutOk(p)
     /\ req[q].op = "delete" /\ req[q].pc = "done"
     /\ req[q].result.tag = "Ok" /\ req[q].result.uuid # ZeroUuid
     /\ p \in req[q].before)
      => handle_get(object_table, version_table, block_store) = NotFound

\* C11: HEAD agrees with GET on every state of the tables: handle_head returns
\* NotFound exactly when handle_get does, and otherwise status 200 with the
\* Content-Type, Content-Length and Last-Modified of handle_get's response and
\* an empty body.
C11_HeadAgreesGet ==
  LET h == handle_head(object_table)
      g == handle_get(object_table, version_table, block_store) IN
  /\ (h = NotFound) <=> (g = NotFound)
  /\ (h # NotFound) =>
       /\ h.status = "Ok" /\ g.status = "Ok"
       /\ h.content_type = g.content_type
       /\ h.content_length = g.content_length
       /\ h.last_modified = g.last_modified
       /\ h.body = <<>>

\* the GET response the second node gives from its tables
NodeGet == handle_get(node_object_table, node_version_table, block_store)

\* no request but those of ps has started
OnlyWriters(ps) == \A r \in Procs \ ps : req[r].pc = "idle"

\* C12: two concurrent PUTs draw distinct uuids and leave two versions; once
\* both have returned Ok and the second node has merged every insert of both,
\* in whatever order they arrived and whichever PUT returned last, the node
\* holds the same Object and Version records as the writers' node and a GET on
\* either returns the body and the headers of the PUT with the larger timestamp.
C12_ConcurrentPutsConverge ==
  \A p, q \in Procs :
    (p # q /\ req[p].op = "put" /\ req[q].op = "put") =>
      /\ req[p].uuid # req[q].uuid
      /\ (PutOk(p) /\ PutOk(q) /\ OnlyWriters({p, q}) /\ delivered = sent) =>
           /\ node_object_table = object_table
           /\ node_version_table = version_table
           /\ Len(node_object_table.versions) = 2
           /\ req[p].ts > req[q].ts =>
                /\ NodeGet.status = "Ok"
                /\ NodeGet.body = req[p].body
                /\ NodeGet.last_modified = req[p].ts
                /\ NodeGet.content_length = Len(req[p].body)
                /\ handle_get(object_table, version_table, block_store) = NodeGet

\* C12 witness: the second node has merged the inserts of two completed PUTs
\* of different bodies and timestamps, and its GET has returned the inline
\* body of the later one
C12_Witness ==
  \E p, q \in Procs :
    /\ PutOk(p) /\ PutOk(q) /\ delivered = sent
    /\ req[p].ts > req[q].ts
    /\ Len(req[p].body) < Len(req[q].body)
    /\ get_resp.status = "Ok" /\ get_resp.body = req[p].body

\* C13: a GET that selects a complete FirstBlock version and returns 200, on a
\* node that has merged any part of the inserts, streams the whole body of the
\* version, of the length announced in Content-Length, and never a body built
\* from an empty Version record or from one holding part of the blocks.
C13_GetStreamsWholeVersion ==
  LET o == node_object_table
      i == LastComplete(o.versions) IN
  (o.some /\ i > 0 /\ o.versions[i].data.tag = "FirstBlock") =>
    /\ NodeGet.status # "Panic"
    /\ NodeGet.status = "Ok" =>
         /\ ~NodeGet.aborted
         /\ Len(NodeGet.body) = NodeGet.content_length
         /\ NodeGet.body = req[1].body

\* C14: invariant I2 on the tables: every ObjectVersion with data =
\* FirstBlock(h) has a Version record of its uuid whose first VersionBlock is
\* the block of hash h at offset 0.
C14_FirstBlockHasVersion ==
  \A i \in 1..Len(object_table.versions) :
    LET v == object_table.versions[i] IN
    v.data.tag = "FirstBlock" =>
      /\ version_table[v.uuid].some
      /\ version_table[v.uuid].blocks # <<>>
      /\ version_table[v.uuid].blocks[1] = VersionBlock(0, v.data.hash)

\* C15: invariant I3 on the tables: every VersionBlock of hash h of a
\* non-deleted Version v has the BlockRef (h, v.uuid, deleted = false).
C15_VersionBlockHasRef ==
  \A u \in DOMAIN version_table :
    (version_table[u].some /\ ~version_table[u].deleted) =>
      \A j \in 1..Len(version_table[u].blocks) :
        BlockRef(version_table[u].blocks[j].hash, u, FALSE) \in block_ref_table

\* the Object entries the PUT has inserted: the provisional and the final one
ProvEntries == {m \in sent : m.table = "object" /\ ~m.object.versions[1].is_complete}
FinalEntries == {m \in sent : m.table = "object" /\ m.object.versions[1].is_complete
                                /\ m.object.versions[1].data.tag = "FirstBlock"}

\* the versions of uuid u the second node holds
NodeVersionsOf(u) ==
  {i \in 1..Len(node_object_table.versions) : node_object_table.versions[i].uuid = u}

\* the provisional and the final ObjectVersion of a streamed PUT carry its
\* uuid and timestamp, the first with is_complete = false and the size of the
\* first block, the second with is_complete = true and the size of the body
SameUuidAndTimestamp ==
  /\ \A m \in ProvEntries \cup FinalEntries :
       /\ m.object.versions[1].uuid = req[1].uuid
       /\ m.object.versions[1].timestamp = req[1].ts
       /\ m.object.versions[1].data = FirstBlock(hash(SubSeq(req[1].body, 1, Min(block_size, Len(req[1].body)))))
  /\ \A m \in ProvEntries : m.object.versions[1].size = Min(block_size, Len(req[1].body))
  /\ \A m \in FinalEntries : m.object.versions[1].size = Len(req[1].body)
  /\ Cardinality(ProvEntries) <= 1 /\ Cardinality(FinalEntries) <= 1

\* a node that has merged the final entry, with or without the provisional
\* one before or after it, holds one version of the uuid, complete, of the
\* size of the body
FinalMerged ==
  \A m \in FinalEntries \cap delivered :
    /\ Cardinality(NodeVersionsOf(m.uuid)) = 1
    /\ \A i \in NodeVersionsOf(m.uuid) :
         /\ node_object_table.versions[i].is_complete
         /\ node_object_table.versions[i].size = Len(req[1].body)
         /\ node_object_table.versions[i].timestamp = req[1].ts

\* no merge at the node takes is_complete back, lowers the size or adds a
\* second version of a uuid
CompleteMonotone ==
  \A i \in 1..Len(node_object_table.versions) :
    LET v == node_object_table.versions[i] IN
    \E j \in 1..Len(node_object_table'.versions) :
      LET w == node_object_table'.versions[j] IN
      /\ w.uuid = v.uuid
      /\ v.is_complete => (w.is_complete /\ w.size = v.size)
      /\ w.size >= v.size

\* C16: the provisional and the final ObjectVersion of one streaming PUT share
\* uuid and timestamp; a node that merges them in either order, and again,
\* holds a single version with is_complete = true and size = length of the
\* body once the final one has arrived; and no later merge sets is_complete
\* back to false.
C16_TwoPhaseMerge ==
  /\ [](SameUuidAndTimestamp /\ FinalMerged)
  /\ [][CompleteMonotone]_vars

\* C16 witness: the final version of a two-block PUT reached the node before
\* the provisional one did
C16_Witness ==
  /\ FinalEntries \cap delivered # {}
  /\ ProvEntries # {} /\ ProvEntries \cap delivered = {}
  /\ Len(req[1].body) > block_size

\* C16 witness of the other order: both have been merged at the node
C16_WitnessBoth ==
  /\ FinalEntries \cap delivered # {}
  /\ ProvEntries \cap delivered # {}
  /\ Len(node_object_table.versions) = 1
  /\ Len(req[1].body) > block_size

\* C17: Bucket::merge is commutative, associative and idempotent on all
\* Bucket entries within the bounds, Deleted and Present states at equal and
\* at different timestamps included; merging an entry with itself leaves it
\* unchanged.
C17_BucketMergeLaws ==
  bucket_out # <<>> =>
    /\ bucket_out.ab = bucket_out.ba
    /\ bucket_out.ab_c = bucket_out.a_bc
    /\ bucket_out.aa = bucket_in[1]
    /\ BucketMerge(bucket_out.ab, bucket_in[2]) = bucket_out.ab

\* C17 witness: a Deleted and a Present entry of the same timestamp have been
\* merged, together with a Present entry of other parameters
C17_Witness ==
  /\ bucket_out # <<>>
  /\ bucket_in[1].state.v = Deleted
  /\ bucket_in[2].state.v.tag = "Present"
  /\ bucket_in[3].state.v.tag = "Present"
  /\ bucket_in[1].state.ts = bucket_in[2].state.ts
  /\ bucket_in[2].state.ts = bucket_in[3].state.ts
  /\ bucket_in[2].state.v # bucket_in[3].state.v
  /\ bucket_out.ab.state.v = Deleted

\* blocks the chunker has returned whose put_block has not been acknowledged
Unacked(r) == {j \in 1..Len(r.emitted) : hash(r.emitted[j]) \notin DOMAIN block_store}

\* per streaming request: block n is in flight, the blocks before it are stored
\* and recorded, and the chunker has read at most the block after it
OneRoundInFlight ==
  \A p \in Procs :
    LET r == req[p]
        n == r.count.put_block IN
    (r.op = "put" /\ n >= 1) =>
      /\ r.count.version = n /\ r.count.block_ref = n
      /\ \A j \in 1..(n - 1) :
           /\ hash(r.emitted[j]) \in DOMAIN block_store
           /\ BlockRef(hash(r.emitted[j]), r.uuid, FALSE) \in block_ref_table
           /\ VersionBlock(SumLen(r.emitted, j - 1), hash(r.emitted[j]))
                \in Range(version_table[r.uuid].blocks)
      /\ n - Len(version_table[r.uuid].blocks) \in {0, 1}
      /\ Len(r.emitted) \in {n, n + 1}
      /\ r.pc = "join" => r.calls = n + 1
      /\ Cardinality(Unacked(r)) <= 2
      /\ r.pc = "join" =>
           /\ r.put_curr_block.block = r.emitted[n]
           /\ r.put_curr_version_block.hash = hash(r.emitted[n])
           /\ r.put_curr_version_block.offset = SumLen(r.emitted, n - 1)

\* a step that starts the put_block and put_block_meta of the next block finds
\* the three futures of the round before completed, with Some(block) read
RoundStartsAfterJoin ==
  \A p \in Procs :
    (req[p].count.put_block >= 1 /\ req'[p].count.put_block > req[p].count.put_block) =>
      /\ req'[p].count.put_block = req[p].count.put_block + 1
      /\ req[p].put_curr_block.st = "done"
      /\ req[p].put_curr_version_block.version_ins = "done"
      /\ req[p].put_curr_version_block.block_ref_ins = "done"
      /\ req[p].chunk = "done" /\ req[p].next_block.some
      /\ req'[p].put_curr_block = RpcPutBlock(hash(req[p].next_block.block),
                                              req[p].next_block.block)
      /\ req'[p].put_curr_version_block.st = "pending"
      /\ req'[p].chunk = "reading"

\* C18: a streaming PUT has at most one put_block, one put_block_meta and one
\* body read in flight: the put_block and put_block_meta of block i + 1 are
\* started only when the put_block and both inserts of put_block_meta of
\* block i and the read of block i + 1 have completed, so that at most two
\* blocks returned by the chunker (the one in flight and the one read ahead)
\* are held besides the chunker's buffer.
C18_PipelineDepth ==
  /\ []OneRoundInFlight
  /\ [][RoundStartsAfterJoin]_vars

\* C18 witness: block 2 is being stored and recorded while block 3 is read,
\* block 1 being stored and recorded
C18_Witness ==
  LET r == req[1] IN
  /\ r.pc = "join" /\ r.count.put_block = 2
  /\ r.put_curr_block.st = "pending"
  /\ r.put_curr_version_block.version_ins = "pending"
  /\ r.put_curr_version_block.block_ref_ins = "pending"
  /\ r.chunk = "reading"
  /\ Len(r.rest) > 0
  /\ Len(version_table[r.uuid].blocks) = 1

\* the Version records the PUT of uuid u has inserted
VersionEntries(u) == {m \in sent : m.table = "version" /\ m.uuid = u}

\* add_block has not failed in any put_block_meta, every Version record
\* inserted holds the single block of its call, and the records inserted so
\* far are those of the blocks returned by the chunker, one offset each
NoDisorderedAddBlock ==
  \A p \in Procs :
    LET r == req[p] IN
    r.op = "put" =>
      /\ r.put_curr_version_block.st # "panic"
      /\ r.result # Panic
      /\ \A j \in 1..r.count.version :
           add_block(VersionNew(FALSE, <<>>),
                     VersionBlock(SumLen(r.emitted, j - 1), hash(r.emitted[j]))).ok
      /\ \A m \in VersionEntries(r.uuid) :
           /\ Len(m.version.blocks) = 1
           /\ ~m.version.deleted
           /\ \E j \in 1..r.count.version :
                m.version.blocks[1] = VersionBlock(SumLen(r.emitted, j - 1), hash(r.emitted[j]))
      /\ \A m1, m2 \in VersionEntries(r.uuid) :
           m1.version.blocks[1].offset = m2.version.blocks[1].offset => m1 = m2

\* a Version record newly inserted carries an offset larger than every offset
\* inserted for the uuid before
OffsetsIncrease ==
  \A m \in sent' \ sent :
    m.table = "version" =>
      \A o \in VersionEntries(m.uuid) :
        o.version.blocks[1].offset < m.version.blocks[1].offset

\* C20: the add_block of put_block_meta never fails, for every body and block:
\* each call appends one VersionBlock to a clone of the empty Version, so that
\* every Version record a PUT inserts carries exactly one VersionBlock, and
\* the offsets of the successive inserts of one PUT are strictly increasing.
C20_AddBlockInOrder ==
  /\ []NoDisorderedAddBlock
  /\ [][OffsetsIncrease]_vars

\* C20 witness: a PUT has returned after inserting the Version records of
\* four blocks
C20_Witness ==
  /\ PutOk(1)
  /\ Cardinality(VersionEntries(req[1].uuid)) = 4
  /\ Len(version_table[req[1].uuid].blocks) = 4

\* futures in progress that wait for their rpc_get_block
Fetching(g) == {k \in 1..Len(g.queue) : g.queue[k].st = "fetching"}

\* C19: the body of a GET of a version of n blocks yields the blocks in the
\* order of the Version record, whatever the order in which the get_block
\* RPCs complete, and is the whole body when it ends; the first block is the
\* prefetched one and is never fetched again, no block is fetched twice; the
\* futures in progress are those of the next blocks in order, at most
\* buffered = 2 of them, so that at most one fetch is in flight ahead of the
\* block the consumer waits for.
C19_GetBodyStream ==
  LET g == get_stream IN
  g.st # "none" =>
    /\ Len(g.items) = Len(req[1].emitted)
    /\ \A j \in 1..Len(g.out) :
         /\ g.out[j] = block_store[g.items[j].hash]
         /\ g.out[j] = req[1].emitted[j]
    /\ g.st = "end" =>
         /\ Len(g.out) = Len(g.items)
         /\ Concat(g.out) = req[1].body
         /\ Concat(g.out) = handle_get(object_table, version_table, block_store).body
    /\ g.fetches[1] = 0
    /\ \A i \in DOMAIN g.fetches :
         /\ g.fetches[i] <= 1
         /\ g.fetches[i] = 1 => (i < g.next /\ i <= Len(g.out) + buffered)
    /\ Len(g.queue) <= buffered
    /\ g.st = "open" =>
         /\ \A k \in 1..Len(g.queue) : g.queue[k].i = Len(g.out) + k
         /\ g.next = Len(g.out) + Len(g.queue) + 1
    /\ Cardinality(Fetching(g) \ {1}) <= 1
    /\ Cardinality(Fetching(g)) <= buffered

\* C19 witness: the body of a four-block version has ended after a block was
\* fetched before the block in front of it
C19_Witness ==
  /\ get_stream.st = "end"
  /\ Len(get_stream.out) = 4
  /\ get_stream.reordered
  /\ req[1].body = PatternBody(MaxBodyPut, MaxPeriodPut)

\* the PUT has taken the inline path
TookInline(r) == r.op = "put" /\ (r.pc = "inline_insert" \/ (r.pc = "done" /\ r.result.tag = "Ok"
                                   /\ r.count.version = 0))

\* C21: with INLINE_THRESHOLD <= block_size a PUT takes the inline path only
\* when the chunker has drained the whole body: the first block is the body,
\* and the version committed is complete with data = Inline(body) and size =
\* len(body), for every body and framing; with block_size < INLINE_THRESHOLD
\* every PUT is inlined and commits, as complete, the first block_size bytes.
C21_InlineWholeBody ==
  \A p \in Procs :
    LET r == req[p]
        first == SubSeq(r.body, 1, Min(block_size, Len(r.body))) IN
    TookInline(r) =>
      /\ Len(r.emitted[1]) < INLINE_THRESHOLD
      /\ r.emitted[1] = first
      /\ INLINE_THRESHOLD <= block_size =>
           /\ r.emitted[1] = r.body
           /\ r.pc = "inline_insert" => (r.read_all /\ r.buf = <<>> /\ r.rest = <<>>)
      /\ PutOk(p) =>
           /\ object_table.versions =
                <<ObjectVersion(r.uuid, r.ts, r.mime_type, Len(first), TRUE, Inline(first))>>
           /\ INLINE_THRESHOLD <= block_size =>
                handle_get(object_table, version_table, block_store).body = r.body

\* C21 witness: with block_size = INLINE_THRESHOLD a body of one byte less
\* has been committed inline, whole
C21_Witness ==
  /\ block_size = INLINE_THRESHOLD
  /\ PutOk(1)
  /\ Len(req[1].body) = INLINE_THRESHOLD - 1
  /\ object_table.versions[1].data = Inline(req[1].body)

\* C21 witness of the misconfiguration: with block_size < INLINE_THRESHOLD a
\* longer body has been committed as complete with its first block_size bytes
C21_WitnessTruncated ==
  /\ block_size < INLINE_THRESHOLD
  /\ PutOk(1)
  /\ Len(req[1].body) > block_size
  /\ object_table.versions[1].is_complete
  /\ object_table.versions[1].data = Inline(SubSeq(req[1].body, 1, block_size))
  /\ object_table.versions[1].size = block_size

====
